---------------------------- MODULE Spec2Model ----------------------------
(***************************************************************************)
(* Car management application (Flask + SQLAlchemy + SQLite).               *)
(*                                                                         *)
(* State: the cars table, the SQLAlchemy session (unit of work) and a      *)
(* record of the last call.  Text is a sequence of one-character strings,  *)
(* Python values are tagged records [t, v], None is [t |-> "none"].        *)
(* Prices are whole currency units.                                        *)
(***************************************************************************)
EXTENDS Integers, Sequences, FiniteSets, TLC

VARIABLES store,    \* cars table: function from persisted id to row
          session,  \* db.session: entities with uncommitted attribute changes
          before,   \* cars table when the last call started
          last,     \* the last call: operation, arguments, outcome, response
          idlog,    \* identifiers handed out by the store, in order
          ops       \* number of calls made so far

vars == <<store, session, before, last, idlog, ops>>

---------------------------------------------------------------------------
(* Bounds *)
MaxOps == 2

(* Program constants *)
MinYear == 1900
MaxYear == 2030
MaxPrice == 10000000
MaxMakeLen == 50
MaxModelLen == 50
MaxColorLen == 30

---------------------------------------------------------------------------
(* Python values *)
None == [t |-> "none"]
PyInt(n) == [t |-> "int", v |-> n]
PyFloat(n) == [t |-> "float", v |-> n]
PyStr(s) == [t |-> "str", v |-> s]
IsNone(x) == x.t = "none"

Whitespace == {" ", "\t", "\n"}

\* str.strip(): drop leading and trailing whitespace
RECURSIVE LStrip(_)
LStrip(s) == IF s # <<>> /\ Head(s) \in Whitespace THEN LStrip(Tail(s)) ELSE s

RECURSIVE RStrip(_)
RStrip(s) ==
    IF s # <<>> /\ s[Len(s)] \in Whitespace
    THEN RStrip(SubSeq(s, 1, Len(s) - 1))
    ELSE s

Strip(s) == RStrip(LStrip(s))

\* Python truthiness of a str-or-None argument
Truthy(x) == ~IsNone(x) /\ x.v # <<>>

\* "not x or not x.strip()"
IsBlank(x) == ~Truthy(x) \/ Strip(x.v) = <<>>

RECURSIVE Rep(_, _)
Rep(c, n) == IF n = 0 THEN <<>> ELSE <<c>> \o Rep(c, n - 1)

---------------------------------------------------------------------------
(* Validation: car_repository.py *)

\* _validate_year: "ok" or the ValueError message
_validate_year(year) ==
    IF year.t # "int" THEN "Year must be an integer"
    ELSE IF year.v < MinYear \/ year.v > MaxYear
         THEN "Year must be between 1900 and 2030"
         ELSE "ok"

\* _validate_price: "ok" or the ValueError message
_validate_price(price) ==
    IF price.t \notin {"int", "float"} THEN "Price must be a number"
    ELSE IF price.v < 0 THEN "Price cannot be negative"
    ELSE IF price.v > MaxPrice THEN "Price is unreasonably high"
    ELSE "ok"

\* a composite check that validates year and price before the text fields
_validate_car_data_YearFirst(make, model, year, color, price) ==
    IF _validate_year(year) # "ok" THEN _validate_year(year)
    ELSE IF _validate_price(price) # "ok" THEN _validate_price(price)
    ELSE IF IsBlank(make) THEN "Make is required"
    ELSE IF IsBlank(model) THEN "Model is required"
    ELSE IF IsBlank(color) THEN "Color is required"
    ELSE "ok"

\* _validate_car_data: "ok" or the message of the first failing check
_validate_car_data(make, model, year, color, price) ==
    IF IsBlank(make) THEN "Make is required"
    ELSE IF IsBlank(model) THEN "Model is required"
    ELSE IF IsBlank(color) THEN "Color is required"
    ELSE IF _validate_year(year) # "ok" THEN _validate_year(year)
    ELSE _validate_price(price)


---------------------------------------------------------------------------
(* The cars table and the session *)

Toyota == <<"T", "o", "y", "o", "t", "a">>
Camry == <<"C", "a", "m", "r", "y">>
Blue == <<"B", "l", "u", "e">>
Honda == <<"H", "o", "n", "d", "a">>
Civic == <<"C", "i", "v", "i", "c">>
Silver == <<"S", "i", "l", "v", "e", "r">>
Ford == <<"F", "o", "r", "d">>
Mustang == <<"M", "u", "s", "t", "a", "n", "g">>
Red == <<"R", "e", "d">>
Tesla == <<"T", "e", "s", "l", "a">>
Model3 == <<"M", "o", "d", "e", "l", " ", "3">>
White == <<"W", "h", "i", "t", "e">>

\* Car.__init__ with swapped make and model
CarSwapped(make, model, year, color, price) ==
    [make |-> model.v, model |-> make.v, year |-> year.v, color |-> color.v,
     price |-> price.v]

\* Car.__init__: the attribute values of a new entity (id not yet assigned)
Car(make, model, year, color, price) ==
    [make |-> make.v, model |-> model.v, year |-> year.v, color |-> color.v,
     price |-> price.v]

\* create_app: the sample rows added to an empty table
sample_cars ==
    << Car(PyStr(Toyota), PyStr(Camry), PyInt(2023), PyStr(Blue), PyFloat(28500)),
       Car(PyStr(Honda), PyStr(Civic), PyInt(2022), PyStr(Silver), PyFloat(24000)),
       Car(PyStr(Ford), PyStr(Mustang), PyInt(2024), PyStr(Red), PyFloat(45000)),
       Car(PyStr(Tesla), PyStr(Model3), PyInt(2023), PyStr(White), PyFloat(42000)) >>

EmptyStore == [i \in {} |-> 0]

Max(S) == CHOOSE m \in S : \A x \in S : x <= m

\* id INTEGER PRIMARY KEY on SQLite (no AUTOINCREMENT): largest rowid + 1
NextId(st) == IF DOMAIN st = {} THEN 1 ELSE Max(DOMAIN st) + 1

\* INSERT one row under the identifier the store assigns
Insert(st, row) ==
    [i \in DOMAIN st \cup {NextId(st)} |->
        IF i \in DOMAIN st THEN st[i] ELSE row]

RECURSIVE InsertAll(_, _)
InsertAll(st, rows) ==
    IF rows = <<>> THEN st ELSE InsertAll(Insert(st, Head(rows)), Tail(rows))

\* the session: nothing loaded, nothing pending
EmptySession == [dirty |-> EmptyStore, new |-> <<>>, deleted |-> {}]

\* db.session.get(Car, id): the identity map first, then the table
Loaded(s, st, id) == id \in DOMAIN s.dirty \/ id \in DOMAIN st
Get(s, st, id) == IF id \in DOMAIN s.dirty THEN s.dirty[id] ELSE st[id]

\* db.session.add(car)
SessionAdd(s, row) == [s EXCEPT !.new = Append(@, row)]

\* attribute assignment on a loaded entity
SessionSet(s, id, row) ==
    [s EXCEPT !.dirty = [i \in DOMAIN s.dirty \cup {id} |->
                            IF i = id THEN row ELSE s.dirty[i]]]

\* db.session.delete(car)
SessionDelete(s, id) == [s EXCEPT !.deleted = @ \cup {id}]

\* db.session.commit(): flush inserts, updates and deletes to the table
Commit(s, st) ==
    LET ins == InsertAll(st, s.new)
        upd == [i \in DOMAIN ins |->
                   IF i \in DOMAIN s.dirty THEN s.dirty[i] ELSE ins[i]]
    IN  [i \in DOMAIN upd \ s.deleted |-> upd[i]]

\* a teardown that keeps the session for the next application context
SessionKept(s) == s

\* teardown of the application context: db.session.remove()
SessionRemove(s) == EmptySession

\* create_app on an empty database
SeededStore == Commit([EmptySession EXCEPT !.new = sample_cars], EmptyStore)

---------------------------------------------------------------------------
(* CarRepository: each operation maps (session, table, arguments) to an    *)
(* outcome, the table and the session it leaves behind.                    *)
(* outcome: "ok", "validation" (ValueError) or "not_found" (abort(404)).   *)

NoCar == [make |-> <<>>, model |-> <<>>, year |-> 0, color |-> <<>>, price |-> 0]

Result(outcome, msg, st, s, id, car) ==
    [outcome |-> outcome, msg |-> msg, store |-> st, session |-> s,
     id |-> id, car |-> car]

\* create that stages and commits the row before it validates
create_CommitFirst(s, st, make, model, year, color, price) ==
    LET msg == _validate_car_data(make, model, year, color, price)
        new_car == [make |-> IF IsNone(make) THEN <<>> ELSE make.v,
                    model |-> IF IsNone(model) THEN <<>> ELSE model.v,
                    year |-> IF IsNone(year) THEN 0 ELSE year.v,
                    color |-> IF IsNone(color) THEN <<>> ELSE color.v,
                    price |-> IF IsNone(price) THEN 0 ELSE price.v]
        s1 == SessionAdd(s, new_car)
    IN  IF msg # "ok"
        THEN Result("validation", msg, Commit(s1, st), EmptySession, 0, NoCar)
        ELSE Result("ok", "", Commit(s1, st), EmptySession, NextId(st), new_car)

\* CarRepository.create
create(s, st, make, model, year, color, price) ==
    LET msg == _validate_car_data(make, model, year, color, price)
    IN  IF msg # "ok"
        THEN Result("validation", msg, st, s, 0, NoCar)
        ELSE LET new_car == Car(make, model, year, color, price)
                 s1 == SessionAdd(s, new_car)
             IN  Result("ok", "", Commit(s1, st), EmptySession,
                        NextId(st), new_car)

\* CarRepository.find_all
find_all(st) == [i \in DOMAIN st |-> st[i]]

\* CarRepository.find_by_id
find_by_id(s, st, car_id) ==
    IF ~Loaded(s, st, car_id)
    THEN Result("not_found", "", st, s, car_id, NoCar)
    ELSE Result("ok", "", st, s, car_id, Get(s, st, car_id))

\* what a query sees: pending session changes are flushed before the SELECT
Flushed(s, st) == Commit(s, st)

\* find_by_year_range whose upper bound is exclusive
find_by_year_range_EndExclusive(s, st, start_year, end_year) ==
    LET t == Flushed(s, st)
    IN  [i \in {j \in DOMAIN t : t[j].year >= start_year.v
                                 /\ t[j].year < end_year.v} |-> t[i]]

\* CarRepository.find_by_year_range: the rows returned, by identifier
find_by_year_range(s, st, start_year, end_year) ==
    LET t == Flushed(s, st)
    IN  [i \in {j \in DOMAIN t : t[j].year >= start_year.v
                                 /\ t[j].year <= end_year.v} |-> t[i]]

\* CarRepository.count
count(st) == Cardinality(DOMAIN st)

\* CarRepository.exists
exists(st, car_id) == car_id \in DOMAIN st

\* "if x is not None: car.f = x"
SetIfSupplied(car, f, x) == IF IsNone(x) THEN car ELSE [car EXCEPT ![f] = x.v]

\* update that validates year and price before it loads the row
update_ValidateFirst(s, st, car_id, make, model, year, color, price) ==
    LET ymsg == IF IsNone(year) THEN "ok" ELSE _validate_year(year)
        pmsg == IF IsNone(price) THEN "ok" ELSE _validate_price(price)
    IN  IF ymsg # "ok" THEN Result("validation", ymsg, st, s, car_id, NoCar)
        ELSE IF pmsg # "ok" THEN Result("validation", pmsg, st, s, car_id, NoCar)
        ELSE IF ~Loaded(s, st, car_id)
        THEN Result("not_found", "", st, s, car_id, NoCar)
        ELSE LET c0 == Get(s, st, car_id)
                 c5 == SetIfSupplied(SetIfSupplied(SetIfSupplied(SetIfSupplied(
                         SetIfSupplied(c0, "make", make), "model", model),
                         "year", year), "color", color), "price", price)
             IN  Result("ok", "", Commit(SessionSet(s, car_id, c5), st),
                        EmptySession, car_id, c5)

\* update that writes the whole argument list, None included, as empty/zero
update_WriteAll(s, st, car_id, make, model, year, color, price) ==
    IF ~Loaded(s, st, car_id)
    THEN Result("not_found", "", st, s, car_id, NoCar)
    ELSE LET c0 == Get(s, st, car_id)
             ymsg == IF IsNone(year) THEN "ok" ELSE _validate_year(year)
             pmsg == IF IsNone(price) THEN "ok" ELSE _validate_price(price)
             c5 == [make |-> IF IsNone(make) THEN <<>> ELSE make.v,
                    model |-> IF IsNone(model) THEN <<>> ELSE model.v,
                    year |-> IF IsNone(year) THEN 0 ELSE year.v,
                    color |-> IF IsNone(color) THEN <<>> ELSE color.v,
                    price |-> IF IsNone(price) THEN 0 ELSE price.v]
         IN  IF ymsg # "ok" THEN Result("validation", ymsg, st, s, car_id, NoCar)
             ELSE IF pmsg # "ok"
             THEN Result("validation", pmsg, st, s, car_id, NoCar)
             ELSE Result("ok", "", Commit(SessionSet(s, car_id, c5), st),
                         EmptySession, car_id, c5)

\* CarRepository.update: the assignments in source order; a failing check
\* leaves the earlier assignments on the loaded entity, uncommitted
update(s, st, car_id, make, model, year, color, price) ==
    IF ~Loaded(s, st, car_id)
    THEN Result("not_found", "", st, s, car_id, NoCar)
    ELSE LET c0 == Get(s, st, car_id)
             c1 == SetIfSupplied(c0, "make", make)
             c2 == SetIfSupplied(c1, "model", model)
             ymsg == IF IsNone(year) THEN "ok" ELSE _validate_year(year)
             c3 == SetIfSupplied(c2, "year", year)
             c4 == SetIfSupplied(c3, "color", color)
             pmsg == IF IsNone(price) THEN "ok" ELSE _validate_price(price)
             c5 == SetIfSupplied(c4, "price", price)
         IN  IF ymsg # "ok"
             THEN Result("validation", ymsg, st, SessionSet(s, car_id, c2),
                         car_id, NoCar)
             ELSE IF pmsg # "ok"
             THEN Result("validation", pmsg, st, SessionSet(s, car_id, c4),
                         car_id, NoCar)
             ELSE Result("ok", "", Commit(SessionSet(s, car_id, c5), st),
                         EmptySession, car_id, c5)

\* delete that removes the row with the largest id
delete_Last(s, st, car_id) ==
    IF ~Loaded(s, st, car_id)
    THEN Result("not_found", "", st, s, car_id, NoCar)
    ELSE Result("ok", "", Commit(SessionDelete(s, Max(DOMAIN st)), st),
                EmptySession, car_id, Get(s, st, car_id))

\* CarRepository.delete; car carries the fields of the returned car_info
delete(s, st, car_id) ==
    IF ~Loaded(s, st, car_id)
    THEN Result("not_found", "", st, s, car_id, NoCar)
    ELSE LET car == Get(s, st, car_id)
         IN  Result("ok", "", Commit(SessionDelete(s, car_id), st),
                    EmptySession, car_id, car)

---------------------------------------------------------------------------
(* Request handlers: car_controller.py *)

Digits == {"0", "1", "2", "3", "4", "5", "6", "7", "8", "9"}

DigitVal(c) ==
    CASE c = "0" -> 0 [] c = "1" -> 1 [] c = "2" -> 2 [] c = "3" -> 3
      [] c = "4" -> 4 [] c = "5" -> 5 [] c = "6" -> 6 [] c = "7" -> 7
      [] c = "8" -> 8 [] c = "9" -> 9

RECURSIVE DigitsVal(_, _)
DigitsVal(ds, acc) ==
    IF ds = <<>> THEN acc ELSE DigitsVal(Tail(ds), 10 * acc + DigitVal(Head(ds)))

IsDigits(ds) == ds # <<>> /\ \A i \in 1..Len(ds) : ds[i] \in Digits

\* a whole numeral: surrounding whitespace, an optional sign, digits
Unsigned(t) == IF t # <<>> /\ Head(t) \in {"-", "+"} THEN Tail(t) ELSE t
IsNumeral(t) == IsDigits(Unsigned(Strip(t)))
NumeralVal(t) ==
    LET u == Strip(t)
        n == DigitsVal(Unsigned(u), 0)
    IN  IF Head(u) = "-" THEN 0 - n ELSE n

\* int(request.form[...]): a value, or None when int() raises ValueError
ParseInt(t) == IF IsNumeral(t) THEN PyInt(NumeralVal(t)) ELSE None

\* float(request.form[...]) on the texts used here (whole numerals, or text
\* that is no number): a value, or None when float() raises ValueError
ParseFloat(t) == IF IsNumeral(t) THEN PyFloat(NumeralVal(t)) ELSE None

Response(status, endpoint, flash) ==
    [status |-> status, endpoint |-> endpoint, flash |-> flash]

NoResponse == Response(0, "", "")

\* the ValueError of a failed coercion, raised before the repository is called
CoercionError(s, st, id) ==
    Result("validation", "invalid literal", st, s, id, NoCar)

\* create_car: the repository result for a submitted form
create_car_call(s, st, form) ==
    LET year == ParseInt(form.year.v)
        price == ParseFloat(form.price.v)
    IN  IF IsNone(year) \/ IsNone(price) THEN CoercionError(s, st, 0)
        ELSE create(s, st, form.make, form.model, year, form.color, price)

\* create_car: the response for a repository result
create_car_response(r) ==
    IF r.outcome = "ok" THEN Response(302, "car.index", "success")
    ELSE IF r.outcome = "validation"
    THEN Response(302, "car.new_car", "Validation error")
    ELSE Response(302, "car.new_car", "Error adding car")

\* show_car / edit_car: abort(404) is not caught
show_car_response(r) ==
    IF r.outcome = "ok" THEN Response(200, "show_car.html", "")
    ELSE Response(404, "", "")

edit_car_response(r) ==
    IF r.outcome = "ok" THEN Response(200, "edit_car.html", "")
    ELSE Response(404, "", "")

\* update_car: the repository result for a submitted form
update_car_call(s, st, id, form) ==
    LET year == ParseInt(form.year.v)
        price == ParseFloat(form.price.v)
    IN  IF IsNone(year) \/ IsNone(price) THEN CoercionError(s, st, id)
        ELSE update(s, st, id, form.make, form.model, year, form.color, price)

\* update_car: "except ValueError", then "except Exception", which also
\* catches the NotFound raised by abort(404)
update_car_response(r) ==
    IF r.outcome = "ok" THEN Response(302, "car.show_car", "success")
    ELSE IF r.outcome = "validation"
    THEN Response(302, "car.edit_car", "Validation error")
    ELSE Response(302, "car.edit_car", "Error updating car")

\* delete_car: "except Exception" catches the NotFound raised by abort(404)
delete_car_response(r) ==
    IF r.outcome = "ok" THEN Response(302, "car.index", "success")
    ELSE Response(302, "car.index", "Error deleting car")

---------------------------------------------------------------------------
(* Actions.  Every call runs in an application context of its own: the     *)
(* session is removed when the context is torn down.                       *)

Args(make, model, year, color, price) ==
    [make |-> make, model |-> model, year |-> year, color |-> color,
     price |-> price]

NoArgs == Args(None, None, None, None, None)

Finish(op, id, args, r, resp) ==
    /\ store' = r.store
    /\ session' = SessionRemove(r.session)
    /\ before' = store
    /\ last' = [op |-> op, id |-> id, args |-> args, outcome |-> r.outcome,
                msg |-> r.msg, rid |-> r.id, car |-> r.car, resp |-> resp]
    /\ idlog' = IF op \in {"create", "create_car"} /\ r.outcome = "ok"
                THEN Append(idlog, r.id) ELSE idlog
    /\ ops' = ops + 1

Init ==
    /\ store = SeededStore
    /\ session = EmptySession
    /\ before = SeededStore
    /\ last = [op |-> "init", id |-> 0, args |-> NoArgs, outcome |-> "ok",
               msg |-> "", rid |-> 0, car |-> NoCar, resp |-> NoResponse]
    /\ idlog = [i \in 1..Len(sample_cars) |-> i]
    /\ ops = 0

(* Access Layer calls *)
Create(make, model, year, color, price) ==
    /\ ops < MaxOps
    /\ Finish("create", 0, Args(make, model, year, color, price),
              create(session, store, make, model, year, color, price),
              NoResponse)

FindById(id) ==
    /\ ops < MaxOps
    /\ Finish("find_by_id", id, NoArgs, find_by_id(session, store, id),
              NoResponse)

Update(id, make, model, year, color, price) ==
    /\ ops < MaxOps
    /\ Finish("update", id, Args(make, model, year, color, price),
              update(session, store, id, make, model, year, color, price),
              NoResponse)

Delete(id) ==
    /\ ops < MaxOps
    /\ Finish("delete", id, NoArgs, delete(session, store, id), NoResponse)

FindByYearRange(start_year, end_year) ==
    /\ ops < MaxOps
    /\ store' = store
    /\ session' = SessionRemove(session)
    /\ before' = store
    /\ last' = [op |-> "find_by_year_range", id |-> 0, args |-> NoArgs,
                outcome |-> "ok", msg |-> "", rid |-> 0, car |-> NoCar,
                resp |-> NoResponse,
                start_year |-> start_year, end_year |-> end_year,
                rows |-> find_by_year_range(session, store, start_year, end_year)]
    /\ idlog' = idlog
    /\ ops' = ops + 1

(* HTTP requests *)
Index ==
    /\ ops < MaxOps
    /\ Finish("index", 0, NoArgs,
              Result("ok", "", store, session, 0, NoCar),
              Response(200, "index.html", ""))

CreateCar(form) ==
    /\ ops < MaxOps
    /\ LET r == create_car_call(session, store, form)
       IN  Finish("create_car", 0, form, r, create_car_response(r))

ShowCar(id) ==
    /\ ops < MaxOps
    /\ LET r == find_by_id(session, store, id)
       IN  Finish("show_car", id, NoArgs, r, show_car_response(r))

EditCar(id) ==
    /\ ops < MaxOps
    /\ LET r == find_by_id(session, store, id)
       IN  Finish("edit_car", id, NoArgs, r, edit_car_response(r))

UpdateCar(id, form) ==
    /\ ops < MaxOps
    /\ LET r == update_car_call(session, store, id, form)
       IN  Finish("update_car", id, form, r, update_car_response(r))

DeleteCar(id) ==
    /\ ops < MaxOps
    /\ LET r == delete(session, store, id)
       IN  Finish("delete_car", id, NoArgs, r, delete_car_response(r))

---------------------------------------------------------------------------
(* Inputs *)

Kia == <<"K", "i", "a">>
Rio == <<"R", "i", "o">>
Green == <<"G", "r", "e", "e", "n">>

\* identifiers a call may name: every row, and absent ones up to the next id
IdIn == 1..NextId(store)

CreateMakeIn == {PyStr(<<" ">>), PyStr(Kia)}
CreateModelIn == {PyStr(Rio)}
CreateYearIn == {PyInt(1899), PyInt(2030)}
CreateColorIn == {PyStr(<<>>), PyStr(Green)}
CreatePriceIn == {PyFloat(0), PyFloat(10000001)}

UpdateMakeIn == {None, PyStr(<<" ">>)}
UpdateModelIn == {None, PyStr(Rio)}
UpdateYearIn == {None, PyInt(1900), PyInt(2031)}
UpdateColorIn == {None}
UpdatePriceIn == {None, PyInt(10000000), PyInt(-1)}

CreateFormIn ==
    {Args(PyStr(Kia), PyStr(Rio), y, PyStr(Green), p) :
        y \in {PyStr(<<"2", "0", "3", "0">>), PyStr(<<"a", "b", "c">>)},
        p \in {PyStr(<<"0">>), PyStr(<<"-", "1">>)}}

UpdateFormIn ==
    {Args(PyStr(Kia), PyStr(Rio), y, PyStr(<<>>), PyStr(<<"0">>)) :
        y \in {PyStr(<<"1", "8", "9", "9">>), PyStr(<<" ", "2", "0", "3", "0">>)}}

Next ==
    \/ \E make \in CreateMakeIn, model \in CreateModelIn, year \in CreateYearIn,
          color \in CreateColorIn, price \in CreatePriceIn :
          Create(make, model, year, color, price)
    \/ \E id \in IdIn : FindById(id)
    \/ \E id \in IdIn, make \in UpdateMakeIn, model \in UpdateModelIn,
          year \in UpdateYearIn, color \in UpdateColorIn, price \in UpdatePriceIn :
          Update(id, make, model, year, color, price)
    \/ \E id \in IdIn : Delete(id)
    \/ Index
    \/ \E form \in CreateFormIn : CreateCar(form)
    \/ \E id \in IdIn : ShowCar(id)
    \/ \E id \in IdIn : EditCar(id)
    \/ \E id \in IdIn, form \in UpdateFormIn : UpdateCar(id, form)
    \/ \E id \in IdIn : DeleteCar(id)

Spec == Init /\ [][Next]_vars

---------------------------------------------------------------------------
(* The Access Layer alone, with create drawn from a wider set of arguments *)

WideMakeIn == {None, PyStr(<<" ", "\t">>), PyStr(Kia), PyStr(Rep("x", MaxMakeLen + 1))}
WideModelIn == {PyStr(<<>>), PyStr(Rio)}
WideColorIn == {PyStr(<<"\n">>), PyStr(Green)}
WideYearIn == {None, PyFloat(2000), PyInt(1899), PyInt(1900), PyInt(2030), PyInt(2031)}
WidePriceIn == {PyStr(<<"0">>), PyInt(-1), PyFloat(0), PyInt(10000000), PyFloat(10000001)}

NextCreate ==
    \/ \E make \in WideMakeIn, model \in WideModelIn, year \in WideYearIn,
          color \in WideColorIn, price \in WidePriceIn :
          Create(make, model, year, color, price)
    \/ \E id \in IdIn : FindById(id)
    \/ \E id \in IdIn : Delete(id)

SpecCreate == Init /\ [][NextCreate]_vars

---------------------------------------------------------------------------
(* The Access Layer with the year-range query, over stores whose rows and  *)
(* years vary through create, update and delete                            *)

RangeYearIn == {PyInt(1900), PyInt(2022), PyInt(2023), PyInt(2025)}

NextQuery ==
    \/ \E make \in CreateMakeIn, model \in CreateModelIn, year \in CreateYearIn,
          color \in CreateColorIn, price \in CreatePriceIn :
          Create(make, model, year, color, price)
    \/ \E id \in IdIn, year \in UpdateYearIn :
          Update(id, None, None, year, None, None)
    \/ \E id \in IdIn : Delete(id)
    \/ \E start_year \in RangeYearIn, end_year \in RangeYearIn :
          FindByYearRange(start_year, end_year)

SpecQuery == Init /\ [][NextQuery]_vars

---------------------------------------------------------------------------
(* Properties *)

\* what the data model calls blank, out of range, valid
AllWhitespace(x) == IsNone(x) \/ \A i \in 1..Len(x.v) : x.v[i] \in Whitespace
IsNumber(x) == x.t \in {"int", "float"}
YearOutside(y) == IsNumber(y) /\ (y.v < MinYear \/ y.v > MaxYear)
PriceOutside(p) == IsNumber(p) /\ (p.v < 0 \/ p.v > MaxPrice)
YearGood(y) == y.t = "int" /\ MinYear <= y.v /\ y.v <= MaxYear
PriceGood(p) == IsNumber(p) /\ 0 <= p.v /\ p.v <= MaxPrice

ValidInput(a) ==
    /\ ~AllWhitespace(a.make) /\ ~AllWhitespace(a.model) /\ ~AllWhitespace(a.color)
    /\ YearGood(a.year) /\ PriceGood(a.price)

InvalidInput(a) ==
    \/ AllWhitespace(a.make) \/ AllWhitespace(a.model) \/ AllWhitespace(a.color)
    \/ YearOutside(a.year) \/ PriceOutside(a.price)

TextOk(t, maxlen) ==
    /\ \E i \in 1..Len(t) : t[i] \notin Whitespace
    /\ 1 <= Len(t) /\ Len(t) <= maxlen

RowValid(row) ==
    /\ TextOk(row.make, MaxMakeLen)
    /\ TextOk(row.model, MaxModelLen)
    /\ TextOk(row.color, MaxColorLen)
    /\ MinYear <= row.year /\ row.year <= MaxYear
    /\ 0 <= row.price /\ row.price <= MaxPrice

\* C1: every persisted Car satisfies all field constraints (non-blank make,
\* model, color within 50/50/30 characters, year in [1900, 2030], price in
\* [0, 10000000]) in every reachable state.
C1_EveryPersistedCarValid == \A i \in DOMAIN store : RowValid(store[i])

\* C2: create with a valid input succeeds, and find_by_id on the returned
\* identifier yields an entity with the make, model, year, color and price
\* that were passed to create.
C2_CreateThenFind ==
    (last.op = "create" /\ ValidInput(last.args)) =>
        /\ last.outcome = "ok"
        /\ LET f == find_by_id(session, store, last.rid)
           IN  /\ f.outcome = "ok"
               /\ f.car.make = last.args.make.v
               /\ f.car.model = last.args.model.v
               /\ f.car.year = last.args.year.v
               /\ f.car.color = last.args.color.v
               /\ f.car.price = last.args.price.v

C2_Witness ==
    /\ last.op = "create" /\ ValidInput(last.args) /\ last.outcome = "ok"
    /\ last.rid \in DOMAIN store /\ last.rid \notin DOMAIN before
    /\ last.args.make.v # last.args.model.v

\* C3: create with an invalid field (blank make, model or color, year outside
\* [1900, 2030], price below 0 or above 10000000) fails with a validation
\* error and leaves the store as it was: same rows, same count.
C3_InvalidCreateNoWrite ==
    (last.op = "create" /\ InvalidInput(last.args)) =>
        /\ last.outcome = "validation"
        /\ store = before
        /\ count(store) = count(before)

C3_Witness ==
    /\ last.op = "create" /\ last.outcome = "validation"
    /\ ~AllWhitespace(last.args.make) /\ ~AllWhitespace(last.args.model)
    /\ ~AllWhitespace(last.args.color) /\ YearGood(last.args.year)
    /\ PriceOutside(last.args.price)
    /\ store = before

\* C4: delete of an existing id removes exactly that row: exists(id) is false
\* afterwards, count is one less, every other row is present and unchanged.
C4_DeleteRemovesExactlyOne ==
    (last.op \in {"delete", "delete_car"} /\ last.id \in DOMAIN before) =>
        /\ last.outcome = "ok"
        /\ ~exists(store, last.id)
        /\ count(store) = count(before) - 1
        /\ \A j \in DOMAIN before \ {last.id} :
              exists(store, j) /\ store[j] = before[j]

C4_Witness ==
    /\ last.op = "delete" /\ last.id \in DOMAIN before
    /\ last.id < Max(DOMAIN before)
    /\ ~exists(store, last.id)

\* C5: an identifier is never reused: the identifier a create returns differs
\* from the identifier of every Car created earlier, deleted ones included.
C5_IdNeverReused ==
    \A i, j \in 1..Len(idlog) : i # j => idlog[i] # idlog[j]

Fields == {"make", "model", "year", "color", "price"}

\* C6: a successful update changes only the fields supplied (non-None): the
\* other fields and the identifier keep their values, and neither another row
\* nor the row count changes.
C6_UpdateFrame ==
    (last.op \in {"update", "update_car"} /\ last.outcome = "ok") =>
        /\ DOMAIN store = DOMAIN before
        /\ last.id \in DOMAIN store
        /\ \A j \in DOMAIN before \ {last.id} : store[j] = before[j]
        /\ \A f \in Fields :
              IsNone(last.args[f]) => store[last.id][f] = before[last.id][f]

C6_Witness ==
    /\ last.op = "update" /\ last.outcome = "ok"
    /\ IsNone(last.args.make) /\ IsNone(last.args.model)
    /\ IsNone(last.args.year) /\ IsNone(last.args.color)
    /\ ~IsNone(last.args.price)
    /\ store[last.id].price # before[last.id].price

\* C7: delete, find_by_id and update on an identifier no row has signal
\* not-found, never a validation error, and leave the store unchanged, also
\* when update is given an invalid year or price.
C7_AbsentIdNotFound ==
    (last.op \in {"delete", "find_by_id", "update"} /\ last.id \notin DOMAIN before)
        => (last.outcome = "not_found" /\ store = before)

C7_Witness ==
    /\ last.op = "update" /\ last.id \notin DOMAIN before
    /\ ~IsNone(last.args.year) /\ ~YearGood(last.args.year)
    /\ last.outcome = "not_found"

\* C8: an update request on an existing row that fails validation changes
\* no persisted field, and the values it had assigned to the entity are gone
\* when the request ends: the session carries nothing into a later request.
C8_FailedUpdateNoMutation ==
    /\ session = EmptySession
    /\ (last.op \in {"update", "update_car"} /\ last.id \in DOMAIN before
          /\ last.outcome = "validation") => store = before

C8_Witness ==
    /\ last.op = "update_car" /\ last.id \in DOMAIN before
    /\ last.outcome = "validation"
    /\ last.msg = "Year must be between 1900 and 2030"
    /\ last.args.make.v # before[last.id].make
    /\ store = before

\* C9: GET /car/<id>, GET /car/<id>/edit and POST /car/<id>/update with an id
\* no row has each produce a 404 response.
C9_AbsentId404 ==
    (last.op \in {"show_car", "edit_car", "update_car"}
        /\ last.id \notin DOMAIN before) => last.resp.status = 404

YearBad(y) == y.t # "int" \/ y.v < MinYear \/ y.v > MaxYear
PriceBad(p) == ~IsNumber(p) \/ p.v < 0 \/ p.v > MaxPrice
YearMessages == {"Year must be an integer", "Year must be between 1900 and 2030"}
PriceMessages == {"Price must be a number", "Price cannot be negative",
                  "Price is unreasonably high"}

\* C10: the composite validation of create checks make, model, color, year,
\* price in that order and reports the error of the first violated check.
C10_FirstViolationReported ==
    last.op = "create" =>
        LET a == last.args IN
        IF AllWhitespace(a.make) THEN last.msg = "Make is required"
        ELSE IF AllWhitespace(a.model) THEN last.msg = "Model is required"
        ELSE IF AllWhitespace(a.color) THEN last.msg = "Color is required"
        ELSE IF YearBad(a.year) THEN last.msg \in YearMessages
        ELSE IF PriceBad(a.price) THEN last.msg \in PriceMessages
        ELSE last.outcome = "ok"

C10_Witness ==
    /\ last.op = "create"
    /\ ~AllWhitespace(last.args.make) /\ AllWhitespace(last.args.model)
    /\ AllWhitespace(last.args.color)
    /\ YearBad(last.args.year) /\ PriceBad(last.args.price)
    /\ last.msg = "Model is required"

\* the rows of a table as a set of <<make, model, year>>
Cars(t) == {<<t[i].make, t[i].model, t[i].year>> : i \in DOMAIN t}

\* C11: find_by_year_range(start, end) returns exactly the rows with
\* start <= year <= end, both bounds inclusive, and does not modify the store;
\* over {Camry/2023, Civic/2022, Mustang/2024}, find_by_year_range(2022, 2023)
\* returns exactly Camry and Civic.
C11_YearRangeInclusive ==
    last.op = "find_by_year_range" =>
        /\ store = before
        /\ \A i \in DOMAIN before :
              i \in DOMAIN last.rows <=>
                  (last.start_year.v <= before[i].year
                     /\ before[i].year <= last.end_year.v)
        /\ \A i \in DOMAIN last.rows : i \in DOMAIN before /\ last.rows[i] = before[i]
        /\ (/\ Cars(before) = {<<Toyota, Camry, 2023>>, <<Honda, Civic, 2022>>,
                               <<Ford, Mustang, 2024>>}
            /\ count(before) = 3
            /\ last.start_year.v = 2022 /\ last.end_year.v = 2023)
              => Cars(last.rows) = {<<Toyota, Camry, 2023>>, <<Honda, Civic, 2022>>}

C11_Witness ==
    /\ last.op = "find_by_year_range"
    /\ Cars(before) = {<<Toyota, Camry, 2023>>, <<Honda, Civic, 2022>>,
                       <<Ford, Mustang, 2024>>}
    /\ count(before) = 3
    /\ last.start_year.v = 2022 /\ last.end_year.v = 2023
    /\ \E i \in DOMAIN last.rows : last.rows[i].year = last.start_year.v
    /\ \E i \in DOMAIN last.rows : last.rows[i].year = last.end_year.v
    /\ \E i \in DOMAIN before : i \notin DOMAIN last.rows

=============================================================================
